---- MODULE Spec2Model ----
(***************************************************************************)
(* A model of the uavcan.rs core: the heap-based session manager           *)
(* (session/heap_based.rs) and the CAN-FD transmit iterator and receive    *)
(* parser (transport/can/fd.rs).                                           *)
(***************************************************************************)
EXTENDS Integers, Sequences, FiniteSets, TLC

(***************************************************************************)
(* Bounds of the model.                                                    *)
(***************************************************************************)
\* longest payload of a transfer the environment hands to the session manager
MaxPayload == 3
\* bytes a frame of the environment's transport carries before its tail byte
FrameCap == 2
\* the clock stops advancing here
MaxTime == 2
\* frames are no longer offered to a session holding this many bytes
MaxBuf == 4

(***************************************************************************)
(* Option<T>: None is the empty sequence, Some(x) the one-element one.     *)
(***************************************************************************)
None == <<>>
Some(x) == <<x>>
unwrap(o) == o[1]

Min(a, b) == IF a <= b THEN a ELSE b

(***************************************************************************)
(* crc_any::CRCu16::crc16ccitt_false(): polynomial 0x1021, initial value   *)
(* 0xFFFF, not reflected, no final xor.                                    *)
(***************************************************************************)
RECURSIVE Xor(_, _, _)
Xor(a, b, n) ==
    IF n = 0 THEN 0
    ELSE ((a + b) % 2) + 2 * Xor(a \div 2, b \div 2, n - 1)

\* one byte shifted through the register, bit by bit
RECURSIVE CrcShift(_, _)
CrcShift(crc, n) ==
    IF n = 0 THEN crc
    ELSE CrcShift(IF crc >= 32768
                  THEN Xor((crc * 2) % 65536, 4129, 16)
                  ELSE (crc * 2) % 65536, n - 1)

\* XorNibble[16 * a + b] is a xor b for a, b in 0..15
XorNibble == [i \in 0..255 |-> Xor(i \div 16, i % 16, 4)]

Xor8(a, b) ==
    16 * XorNibble[16 * (a \div 16) + (b \div 16)]
      + XorNibble[16 * (a % 16) + (b % 16)]

\* CrcTable[i] is the register after byte i went through a zero register
CrcTable == [i \in 0..255 |-> CrcShift(i * 256, 8)]

\* CRCu16::digest of one byte
CrcByte(crc, b) ==
    LET t == CrcTable[Xor8(crc \div 256, b)]
    IN  256 * Xor8(crc % 256, t \div 256) + (t % 256)

RECURSIVE digest(_, _)
digest(crc, bytes) ==
    IF crc >= 0 /\ bytes = <<>> THEN crc
    ELSE digest(CrcByte(crc, Head(bytes)), Tail(bytes))

crc16ccitt_false == 65535

to_be_bytes(crc) == <<crc \div 256, crc % 256>>

(***************************************************************************)
(* Types of the data model.                                                *)
(***************************************************************************)
NodeIds == {1, 2}
Sources == {None, Some(1)}
TransferIds == {0, 31}
Priorities == {"Nominal"}
Kinds == {"Message", "Request"}
PortIds == {100, 7509}
Extents == {1, MaxPayload}
Timeouts == {1, MaxTime}

\* crate::Subscription { transfer_kind, port_id, extent, timeout }
Subscriptions ==
    [kind : Kinds, port_id : PortIds, extent : Extents, timeout : Timeouts]

\* PartialEq of crate::Subscription: equal iff kind and port id agree
SubEq(a, b) == a.kind = b.kind /\ a.port_id = b.port_id

(***************************************************************************)
(* The frames the environment offers.  A transfer's payload is the byte    *)
(* sequence 1, 2, .., n; on the wire a multi-frame transfer is followed by *)
(* its CRC, high byte first, and cut into frames of FrameCap bytes.        *)
(***************************************************************************)
Payload(n) == [i \in 1..n |-> i]

Wire(p) ==
    IF Len(p) <= FrameCap THEN p
    ELSE p \o to_be_bytes(digest(crc16ccitt_false, p))

NFrames(p) ==
    IF Len(p) <= FrameCap THEN 1
    ELSE (Len(Wire(p)) + FrameCap - 1) \div FrameCap

\* frames of one transfer never number more than this
MaxFrames == (MaxPayload + 2) \div FrameCap + 1

TxChunk(p, k) ==
    LET lo == (k - 1) * FrameCap + 1
        hi == Min(k * FrameCap, Len(Wire(p)))
    IN  [data |-> SubSeq(p, lo, Min(hi, Len(p))),
         crc  |-> SubSeq(Wire(p), IF lo > Len(p) THEN lo ELSE Len(p) + 1, hi)]

\* the frames of the transfers with payloads of 0..MaxPayload bytes
TxChunks ==
    [n \in 0..MaxPayload |->
        [k \in 1..NFrames(Payload(n)) |-> TxChunk(Payload(n), k)]]

\* frame k of the n-byte transfer, as the parser hands it to ingest:
\* payload is the slice before the tail byte (logical data, then any CRC
\* bytes); the tail byte's flags and transfer id are fields
RxFrame(now_, kind, port, src, prio, tid, n, k) ==
    [timestamp |-> now_, kind |-> kind, port_id |-> port,
     source_node_id |-> src, priority |-> prio, transfer_id |-> tid,
     start_of_transfer |-> (k = 1), end_of_transfer |-> (k = Len(TxChunks[n])),
     toggle |-> (k % 2 = 1),
     data |-> TxChunks[n][k].data,
     payload |-> TxChunks[n][k].data \o TxChunks[n][k].crc]

\* every frame of every transfer the environment may send, stamped 0
AllRxFrames ==
    {RxFrame(0, kind, port, src, prio, tid, nk[1], nk[2]) :
        kind \in Kinds, port \in PortIds, src \in Sources, prio \in Priorities,
        tid \in TransferIds,
        nk \in {x \in (0..MaxPayload) \X (1..MaxFrames) :
                  x[2] <= Len(TxChunks[x[1]])}}

\* the same frames as they arrive at time now_
RxFrames(now_) == {[f EXCEPT !.timestamp = now_] : f \in AllRxFrames}

(***************************************************************************)
(* transport::SessionMetadata for CAN: the toggle bit expected next and    *)
(* the running CRC.  A single-frame transfer is valid as it is; in a       *)
(* multi-frame transfer every byte before the tail is digested, so that    *)
(* the CRC of data followed by its own CRC is zero.                        *)
(***************************************************************************)
md_new == [toggle |-> TRUE, crc |-> crc16ccitt_false]

\* SessionMetadata::update: [md, len] with len the Option<usize> returned
md_update(md, frame) ==
    IF frame.start_of_transfer /\ frame.end_of_transfer
    THEN [md |-> md, len |-> Some(Len(frame.data))]
    ELSE IF frame.toggle # md.toggle
    THEN [md |-> md, len |-> None]
    ELSE [md |-> [toggle |-> ~md.toggle, crc |-> digest(md.crc, frame.payload)],
          len |-> Some(Len(frame.data))]

\* SessionMetadata::is_valid
md_is_valid(md, frame) ==
    (frame.start_of_transfer /\ frame.end_of_transfer) \/ md.crc = 0

(***************************************************************************)
(* session/heap_based.rs: Session                                          *)
(***************************************************************************)
\* a new session that forgets the transfer id
Session_new_zero(transfer_id) ==
    [timestamp |-> None, payload |-> <<>>, transfer_id |-> 0, md |-> md_new]

\* Session::new
Session_new(transfer_id) ==
    [timestamp |-> None, payload |-> <<>>, transfer_id |-> transfer_id,
     md |-> md_new]

\* a reset that keeps the payload
Session_reset_keeps(session) ==
    [session EXCEPT !.timestamp = None, !.md = md_new]

\* Session::reset
Session_reset(session) ==
    [session EXCEPT !.payload = <<>>, !.timestamp = None, !.md = md_new]

\* taking the new transfer id without the reset
reset_to_new_transfer_id_keeps(session, transfer_id) ==
    [session EXCEPT !.transfer_id = transfer_id]

\* Session::reset_to_new_transfer_id
reset_to_new_transfer_id(session, transfer_id) ==
    [Session_reset(session) EXCEPT !.transfer_id = transfer_id]

\* session::timestamp_expired(timeout, now, then)
timestamp_expired(timeout, now_, then) ==
    then # None /\ now_ - unwrap(then) > timeout

\* Transfer::from_frame(frame, timestamp, payload)
from_frame(frame, timestamp, payload) ==
    [timestamp |-> timestamp, priority |-> frame.priority,
     transfer_kind |-> frame.kind, port_id |-> frame.port_id,
     remote_node_id |-> frame.source_node_id,
     transfer_id |-> frame.transfer_id, payload |-> payload]

(***************************************************************************)
(* Results: Ok(None), Ok(Some(transfer)), Err(e), or a panic.              *)
(***************************************************************************)
OkNone == [tag |-> "OkNone"]
OkSome(t) == [tag |-> "OkSome", transfer |-> t]
Err(e) == [tag |-> "Err", err |-> e]
Panic == [tag |-> "Panic"]
OkUnit == [tag |-> "Ok"]

(***************************************************************************)
(* session/heap_based.rs: Subscription (sub, sessions)                     *)
(***************************************************************************)
\* Subscription::new
Subscription_new(sub) == [sub |-> sub, sessions |-> <<>>]

HasSession(s, id) == id \in DOMAIN s.sessions

PutSession(sessions, id, session) ==
    [n \in DOMAIN sessions \cup {id} |->
        IF n = id THEN session ELSE sessions[n]]

\* the bytes of frame.payload[0..payload_to_copy] appended in accept_frame
payload_to_copy(plen, len, extent) ==
    IF plen + len > extent THEN plen + len - extent ELSE len

\* Subscription::accept_frame: [s, ret] with s the subscription afterwards
accept_frame(s, id, frame) ==
    LET session == s.sessions[id]
        stamped == IF frame.start_of_transfer
                   THEN [session EXCEPT !.timestamp = Some(frame.timestamp)]
                   ELSE session
        u == md_update(stamped.md, frame)
        withmd == [stamped EXCEPT !.md = u.md]
        n == payload_to_copy(Len(session.payload), unwrap(u.len), s.sub.extent)
        extended == [withmd EXCEPT !.payload = @ \o SubSeq(frame.payload, 1, n)]
        put(x) == [s EXCEPT !.sessions = PutSession(@, id, x)]
    IN  IF u.len = None
        THEN [s |-> put(withmd), ret |-> Err("BadMetadata")]
        ELSE IF n > Len(frame.payload)
        THEN [s |-> put(withmd), ret |-> Panic]
        ELSE IF ~frame.end_of_transfer
        THEN [s |-> put(extended), ret |-> OkNone]
        ELSE IF ~md_is_valid(u.md, frame)
        THEN [s |-> put(extended), ret |-> Err("BadMetadata")]
        ELSE IF extended.timestamp = None
        THEN [s |-> put(extended), ret |-> Panic]
        ELSE [s |-> put(extended),
              ret |-> OkSome(from_frame(frame, unwrap(extended.timestamp),
                                        extended.payload))]

\* Subscription::update
update(s, frame) ==
    IF frame.source_node_id = None
    THEN [s |-> s, ret |-> Panic]
    ELSE LET id == unwrap(frame.source_node_id)
         IN  IF ~HasSession(s, id)
             THEN IF ~frame.start_of_transfer
                  THEN [s |-> s, ret |-> Err("NewSessionNoStart")]
                  ELSE accept_frame(
                         [s EXCEPT !.sessions =
                            PutSession(@, id, Session_new(frame.transfer_id))],
                         id, frame)
             ELSE IF s.sessions[id].transfer_id # frame.transfer_id
             THEN accept_frame(
                    [s EXCEPT !.sessions[id] =
                       reset_to_new_transfer_id(@, frame.transfer_id)],
                    id, frame)
             ELSE IF timestamp_expired(s.sub.timeout, frame.timestamp,
                                       s.sessions[id].timestamp)
             THEN [s |-> [s EXCEPT !.sessions[id] = Session_reset(@)],
                   ret |-> Err("Timeout")]
             ELSE accept_frame(s, id, frame)

(***************************************************************************)
(* transport/can: the tail byte and the CAN identifiers.                   *)
(***************************************************************************)
Bit(b) == IF b THEN 1 ELSE 0

\* TailByte::new(start, end, toggle, transfer_id)
TailByte_new(start, end, toggle, transfer_id) ==
    Bit(start) * 128 + Bit(end) * 64 + Bit(toggle) * 32 + transfer_id

\* TailByte::transfer_id of transfer.rs: the TransferID made of the byte
TailByte_transfer_id(v) == v

\* TailByte::start_of_transfer / end_of_transfer / toggle / transfer_id
tail_start_of_transfer(v) == (v \div 128) % 2 = 1
tail_end_of_transfer(v) == (v \div 64) % 2 = 1
tail_toggle(v) == (v \div 32) % 2 = 1
tail_transfer_id(v) == v % 32

\* Priority as u8
PriorityNo ==
    [p \in {"Exceptional", "Immediate", "Fast", "High", "Nominal", "Low",
            "Slow", "Optional"} |->
        CASE p = "Exceptional" -> 0 [] p = "Immediate" -> 1 [] p = "Fast" -> 2
          [] p = "High" -> 3 [] p = "Nominal" -> 4 [] p = "Low" -> 5
          [] p = "Slow" -> 6 [] p = "Optional" -> 7]

Priority_from_u8(n) == CHOOSE p \in DOMAIN PriorityNo : PriorityNo[p] = n

\* CanMessageId::new(priority, subject_id, source).to_u32(): priority(3),
\* service bit 0, message bit 1, anonymous(1), subject(13) from bit 8,
\* reserved bit 7 set, source node id(7)
CanMessageId_new(priority, subject_id, node_id) ==
    PriorityNo[priority] * 67108864 + 16777216
      + (IF node_id = None THEN 8388608 ELSE 0)
      + subject_id * 256 + 128
      + (IF node_id = None THEN 0 ELSE unwrap(node_id))

\* CanServiceId::new(priority, is_req, service_id, destination, source)
CanServiceId_new(priority, is_req, service_id, destination, source) ==
    PriorityNo[priority] * 67108864 + 33554432 + 16777216
      + Bit(is_req) * 8388608 + service_id * 16384 + destination * 128 + source

id_priority(id) == (id \div 67108864) % 8
id_is_svc(id) == (id \div 33554432) % 2 = 1
id_is_anon(id) == (id \div 8388608) % 2 = 1
id_is_req(id) == (id \div 8388608) % 2 = 1
id_subject_id(id) == (id \div 256) % 8192
id_service_id(id) == (id \div 16384) % 512
id_destination_id(id) == (id \div 128) % 128
id_source_id(id) == id % 128
CanMessageId_valid(id) == (id \div 16777216) % 2 = 1 /\ (id \div 128) % 2 = 1
CanServiceId_valid(id) == (id \div 16777216) % 2 = 1

(***************************************************************************)
(* transport/can/fd.rs: FdCanIter                                          *)
(***************************************************************************)
\* <FdCan as Transport>::MTU_SIZE
MTU_SIZE == 64

\* FdCanIter::new(transfer, node_id): Ok(iterator) or Err(TxError)
FdCanIter_new(transfer, node_id) ==
    LET fresh(frame_id) ==
            [tag |-> "Ok",
             iter |-> [transfer |-> transfer, frame_id |-> frame_id,
                       payload_offset |-> 0, crc |-> crc16ccitt_false,
                       crc_left |-> 2, toggle |-> TRUE, is_start |-> TRUE]]
    IN  IF transfer.transfer_kind = "Message"
        THEN IF node_id = None /\ Len(transfer.payload) > 63
             THEN Err("AnonNotSingleFrame")
             ELSE fresh(CanMessageId_new(transfer.priority, transfer.port_id,
                                         node_id))
        ELSE IF node_id = None
        THEN Err("ServiceNoSourceID")
        ELSE IF transfer.remote_node_id = None
        THEN Err("ServiceNoDestinationID")
        ELSE fresh(CanServiceId_new(transfer.priority,
                                    transfer.transfer_kind = "Request",
                                    transfer.port_id,
                                    unwrap(transfer.remote_node_id),
                                    unwrap(node_id)))

\* <FdCan as Transport>::transmit
FdCan_transmit(transfer) == FdCanIter_new(transfer, Some(1))

Zeroes(n) == [i \in 1..n |-> 0]

\* the DLC step of FdCanIter::next: the frame padded with zeroes up to the
\* step of copy_len, and its dlc; a panic when the ArrayVec<[u8; 64]>
\* cannot take the padding
SetDlc(payload, copy_len) ==
    LET padded(step, dlc) ==
            IF Len(payload) + (step - copy_len) > MTU_SIZE
            THEN [tag |-> "Panic"]
            ELSE [tag |-> "Ok", dlc |-> dlc,
                  payload |-> payload \o Zeroes(step - copy_len)]
    IN  IF copy_len <= 8 THEN [tag |-> "Ok", dlc |-> copy_len, payload |-> payload]
        ELSE IF copy_len <= 12 THEN padded(12, 9)
        ELSE IF copy_len <= 16 THEN padded(16, 10)
        ELSE IF copy_len <= 20 THEN padded(20, 11)
        ELSE IF copy_len <= 24 THEN padded(24, 12)
        ELSE IF copy_len <= 32 THEN padded(32, 13)
        ELSE IF copy_len <= 48 THEN padded(48, 14)
        ELSE IF copy_len <= 64 THEN padded(64, 15)
        ELSE [tag |-> "Panic"]

\* next() that never flips the toggle
Written_no_flip(it) ==
    LET len == Len(it.transfer.payload)
        bytes_left == len - it.payload_offset
        is_end == bytes_left <= 63
        copy_len == Min(bytes_left, 63)
        out_data == SubSeq(it.transfer.payload, it.payload_offset + 1,
                           it.payload_offset + copy_len)
        crc2 == digest(it.crc, out_data)
        crc == to_be_bytes(crc2)
        crcpart == IF bytes_left < 7
                   THEN IF it.crc_left = 2
                        THEN IF 7 - bytes_left >= 2 THEN crc ELSE <<crc[1]>>
                        ELSE IF it.crc_left = 1 THEN <<crc[2]>> ELSE <<>>
                   ELSE <<>>
        crc_left == IF bytes_left < 7
                    THEN IF it.crc_left = 2
                         THEN IF 7 - bytes_left >= 2 THEN 0 ELSE 1
                         ELSE 0
                    ELSE it.crc_left
    IN  IF it.is_start /\ is_end
        THEN [done |-> FALSE,
              iter |-> [it EXCEPT !.payload_offset = @ + bytes_left,
                                  !.is_start = FALSE],
              payload |-> SubSeq(it.transfer.payload, 1, copy_len)
                          \o <<TailByte_new(TRUE, TRUE, TRUE,
                                            it.transfer.transfer_id)>>,
              copy_len |-> copy_len]
        ELSE IF bytes_left = 0 /\ it.crc_left = 0
        THEN [done |-> TRUE]
        ELSE [done |-> FALSE,
              iter |-> [it EXCEPT !.payload_offset = @ + copy_len,
                                  !.crc = crc2, !.crc_left = crc_left,
                                  !.is_start = FALSE],
              payload |-> out_data \o crcpart
                          \o <<TailByte_new(it.is_start, is_end, it.toggle,
                                            it.transfer.transfer_id)>>,
              copy_len |-> copy_len + Len(crcpart) + 1]

\* what FdCanIter::next writes before the DLC step: [iter, payload,
\* copy_len], or [done |-> TRUE] when it returns None
Written(it) ==
    LET len == Len(it.transfer.payload)
        bytes_left == len - it.payload_offset
        is_end == bytes_left <= 63
        copy_len == Min(bytes_left, 63)
        out_data == SubSeq(it.transfer.payload, it.payload_offset + 1,
                           it.payload_offset + copy_len)
        crc2 == digest(it.crc, out_data)
        crc == to_be_bytes(crc2)
        crcpart == IF bytes_left < 7
                   THEN IF it.crc_left = 2
                        THEN IF 7 - bytes_left >= 2 THEN crc ELSE <<crc[1]>>
                        ELSE IF it.crc_left = 1 THEN <<crc[2]>> ELSE <<>>
                   ELSE <<>>
        crc_left == IF bytes_left < 7
                    THEN IF it.crc_left = 2
                         THEN IF 7 - bytes_left >= 2 THEN 0 ELSE 1
                         ELSE 0
                    ELSE it.crc_left
    IN  IF it.is_start /\ is_end
        THEN [done |-> FALSE,
              iter |-> [it EXCEPT !.payload_offset = @ + bytes_left,
                                  !.is_start = FALSE],
              payload |-> SubSeq(it.transfer.payload, 1, copy_len)
                          \o <<TailByte_new(TRUE, TRUE, TRUE,
                                            it.transfer.transfer_id)>>,
              copy_len |-> copy_len]
        ELSE IF bytes_left = 0 /\ it.crc_left = 0
        THEN [done |-> TRUE]
        ELSE [done |-> FALSE,
              iter |-> [it EXCEPT !.payload_offset = @ + copy_len,
                                  !.crc = crc2, !.crc_left = crc_left,
                                  !.toggle = ~@, !.is_start = FALSE],
              payload |-> out_data \o crcpart
                          \o <<TailByte_new(it.is_start, is_end, it.toggle,
                                            it.transfer.transfer_id)>>,
              copy_len |-> copy_len + Len(crcpart) + 1]

\* FdCanIter::next: [iter, ret] with ret None, Some(frame) or a panic; the
\* frame records in tail_at where its tail byte was written
FdCanIter_next(it) ==
    LET w == Written(it)
        d == SetDlc(w.payload, w.copy_len)
    IN  IF w.done THEN [iter |-> it, ret |-> [tag |-> "None"]]
        ELSE IF d.tag = "Panic" THEN [iter |-> w.iter, ret |-> Panic]
        ELSE [iter |-> w.iter,
              ret |-> [tag |-> "Some",
                       frame |-> [id |-> it.frame_id, dlc |-> d.dlc,
                                  payload |-> d.payload,
                                  tail_at |-> Len(w.payload)]]]

\* FdCanIter::size_hint: <<lower, upper>> with upper an Option
size_hint(it) ==
    LET bytes_left == Len(it.transfer.payload) - it.payload_offset
        with_crc == bytes_left + 2
        frames == with_crc \div 7 + (IF with_crc % 7 > 0 THEN 1 ELSE 0)
    IN  IF it.is_start /\ bytes_left <= 7
        THEN <<1, Some(1)>>
        ELSE <<frames, Some(frames)>>

\* <FdCan as Transport>::rx_process_frame(node_id, frame)
rx_process_frame(node_id, frame) ==
    LET tail_byte == frame.payload[Len(frame.payload)]
        id == frame.id
        internal(kind, port, src, dst) ==
            [priority |-> Priority_from_u8(id_priority(id)), kind |-> kind,
             port_id |-> port, source_node_id |-> src,
             destination_node_id |-> dst,
             transfer_id |-> tail_transfer_id(tail_byte),
             start_of_transfer |-> tail_start_of_transfer(tail_byte),
             end_of_transfer |-> tail_end_of_transfer(tail_byte),
             payload |-> frame.payload]
    IN  IF Len(frame.payload) = 0 THEN Err("FrameEmpty")
        ELSE IF tail_start_of_transfer(tail_byte) /\ ~tail_toggle(tail_byte)
        THEN Err("TransferStartMissingToggle")
        ELSE IF ~tail_end_of_transfer(tail_byte) /\ Len(frame.payload) < MTU_SIZE
        THEN Err("NonLastUnderUtilization")
        ELSE IF id_is_svc(id)
        THEN IF ~CanServiceId_valid(id) THEN Err("InvalidCanId")
             ELSE IF node_id = None \/ id_destination_id(id) # unwrap(node_id)
             THEN OkNone
             ELSE [tag |-> "OkSome",
                   frame |-> internal(IF id_is_req(id) THEN "Request"
                                      ELSE "Response",
                                      id_service_id(id), Some(id_source_id(id)),
                                      Some(id_destination_id(id)))]
        ELSE IF id_is_anon(id)
                /\ ~(tail_start_of_transfer(tail_byte)
                     /\ tail_end_of_transfer(tail_byte))
        THEN Err("AnonNotSingleFrame")
        ELSE IF ~CanMessageId_valid(id) THEN Err("InvalidCanId")
        ELSE [tag |-> "OkSome",
              frame |-> internal("Message", id_subject_id(id),
                                 IF id_is_anon(id) THEN None
                                 ELSE Some(id_source_id(id)), None)]

(***************************************************************************)
(* State.  subscriptions is HeapSessionManager::subscriptions; clock is    *)
(* the host's monotonic clock; op names the last operation called on the   *)
(* manager and result is what it returned;                                 *)
(* hist holds, per subscription key and source node, the frames ingested   *)
(* since that source's last start-of-transfer frame; swept holds the       *)
(* sessions (subscription index, source) that the last call replaced when  *)
(* it was update_sessions.  On the transmit side                           *)
(* xfer is the transfer handed to transmit, local the node id used, iter   *)
(* the FdCanIter, yielded the frames it has returned, ret what the last    *)
(* call returned, rx the last result of rx_process_frame, and node the     *)
(* own node id of the node that handed the transfer over.  twin is a       *)
(* second session manager that is given only part of the calls, to compare *)
(* the first one with; None while there is none.  tail is a TailByte of    *)
(* transfer.rs with the arguments it was made from and, once it was read,  *)
(* the TransferID read from it; None while there is none.                  *)
(***************************************************************************)
VARIABLES subscriptions, clock, op, result, hist, swept,
          xfer, local, iter, yielded, ret, rx, node, twin, tail

mvars == <<subscriptions, clock, op, result, hist, swept>>
fvars == <<xfer, local, iter, yielded, ret, rx, node>>
vars == <<subscriptions, clock, op, result, hist, swept,
          xfer, local, iter, yielded, ret, rx, node, twin, tail>>

Keys == Kinds \X PortIds
KeyOf(x) == <<x.kind, x.port_id>>

\* HeapSessionManager::matches_sub
matches_sub(sub, frame) ==
    sub.kind = frame.kind /\ sub.port_id = frame.port_id

\* .iter().position(pred) and .iter_mut().find(pred): the first of the
\* indices satisfying the predicate, 0 when there is none
Position(hits) ==
    IF hits = {} THEN 0 ELSE CHOOSE i \in hits : \A j \in hits : i <= j

RemoveAt(seq, pos) == SubSeq(seq, 1, pos - 1) \o SubSeq(seq, pos + 1, Len(seq))

NoHist == [k \in Keys |-> [n \in NodeIds |-> <<>>]]

\* the record of a frame kept in hist
Shown(frame) ==
    [transfer_id |-> frame.transfer_id, priority |-> frame.priority,
     start_of_transfer |-> frame.start_of_transfer,
     end_of_transfer |-> frame.end_of_transfer, toggle |-> frame.toggle,
     data |-> frame.data, payload |-> frame.payload]

Track(h, frame) ==
    IF frame.start_of_transfer THEN <<Shown(frame)>>
    ELSE IF h = <<>> \/ Len(h) >= MaxFrames \/ h[Len(h)].end_of_transfer
    THEN <<>>
    ELSE Append(h, Shown(frame))

\* HeapSessionManager::new
MInit ==
    /\ subscriptions = <<>>
    /\ clock = 0
    /\ op = "new"
    /\ result = OkUnit
    /\ hist = NoHist
    /\ swept = {}

\* no transfer handed to a transport yet
FInit ==
    /\ xfer = None
    /\ local = None
    /\ iter = None
    /\ yielded = <<>>
    /\ ret = [tag |-> "Idle"]
    /\ rx = None
    /\ node = None

Init == MInit /\ FInit /\ twin = None /\ tail = None

Running == result.tag # "Panic"

\* subscribe without the check for an existing subscription
subscribe_unchecked(subscription) ==
    /\ Running
    /\ op' = "subscribe"
    /\ swept' = {}
    /\ subscriptions' = Append(subscriptions, Subscription_new(subscription))
    /\ result' = OkUnit
    /\ hist' = [hist EXCEPT ![KeyOf(subscription)] = NoHist[KeyOf(subscription)]]
    /\ UNCHANGED clock

\* edit_subscription that replaces the parameters and keeps the sessions
edit_keeps_sessions(subscription) ==
    LET pos == Position({i \in 1..Len(subscriptions) :
                               SubEq(subscriptions[i].sub, subscription)})
    IN  /\ Running
        /\ op' = "edit_subscription"
        /\ swept' = {}
        /\ IF pos # 0
           THEN /\ subscriptions' =
                      [subscriptions EXCEPT ![pos].sub = subscription]
                /\ result' = OkUnit
           ELSE /\ result' = Err("SubscriptionDoesNotExist")
                /\ UNCHANGED subscriptions
        /\ UNCHANGED <<clock, hist>>

\* HeapSessionManager::subscribe
subscribe(subscription) ==
    /\ Running
    /\ op' = "subscribe"
    /\ swept' = {}
    /\ IF \E i \in 1..Len(subscriptions) : SubEq(subscriptions[i].sub, subscription)
       THEN /\ result' = Err("SubscriptionExists")
            /\ UNCHANGED <<subscriptions, hist>>
       ELSE /\ subscriptions' = Append(subscriptions, Subscription_new(subscription))
            /\ result' = OkUnit
            /\ hist' = [hist EXCEPT ![KeyOf(subscription)] = NoHist[KeyOf(subscription)]]
    /\ UNCHANGED clock

\* HeapSessionManager::edit_subscription
edit_subscription(subscription) ==
    LET pos == Position({i \in 1..Len(subscriptions) :
                               SubEq(subscriptions[i].sub, subscription)})
    IN  /\ Running
        /\ op' = "edit_subscription"
        /\ swept' = {}
        /\ IF pos # 0
           THEN /\ subscriptions' =
                      [subscriptions EXCEPT ![pos] = Subscription_new(subscription)]
                /\ result' = OkUnit
                /\ hist' = [hist EXCEPT ![KeyOf(subscription)] = NoHist[KeyOf(subscription)]]
           ELSE /\ result' = Err("SubscriptionDoesNotExist")
                /\ UNCHANGED <<subscriptions, hist>>
        /\ UNCHANGED clock

\* unsubscribe that removes the first subscription instead of the one found
unsubscribe_first(subscription) ==
    LET pos == Position({i \in 1..Len(subscriptions) :
                               SubEq(subscriptions[i].sub, subscription)})
    IN  /\ Running
        /\ op' = "unsubscribe"
        /\ swept' = {}
        /\ IF pos # 0
           THEN /\ subscriptions' = RemoveAt(subscriptions, 1)
                /\ result' = OkUnit
                /\ hist' = [hist EXCEPT ![KeyOf(subscription)] = NoHist[KeyOf(subscription)]]
           ELSE /\ result' = Err("SubscriptionDoesNotExist")
                /\ UNCHANGED <<subscriptions, hist>>
        /\ UNCHANGED clock

\* HeapSessionManager::unsubscribe
unsubscribe(subscription) ==
    LET pos == Position({i \in 1..Len(subscriptions) :
                               SubEq(subscriptions[i].sub, subscription)})
    IN  /\ Running
        /\ op' = "unsubscribe"
        /\ swept' = {}
        /\ IF pos # 0
           THEN /\ subscriptions' = RemoveAt(subscriptions, pos)
                /\ result' = OkUnit
                /\ hist' = [hist EXCEPT ![KeyOf(subscription)] = NoHist[KeyOf(subscription)]]
           ELSE /\ result' = Err("SubscriptionDoesNotExist")
                /\ UNCHANGED <<subscriptions, hist>>
        /\ UNCHANGED clock

\* the session a frame would be added to holds fewer than MaxBuf bytes
Offered(frame) ==
    \A i \in 1..Len(subscriptions) :
        (matches_sub(subscriptions[i].sub, frame) /\ frame.source_node_id # None
         /\ HasSession(subscriptions[i], unwrap(frame.source_node_id)))
        => Len(subscriptions[i].sessions[unwrap(frame.source_node_id)].payload)
             + Len(frame.data) <= MaxBuf

\* ingest that hands every frame to the first subscription
ingest_on_first(subs, frame) ==
    IF subs # <<>>
    THEN [subscriptions |-> [subs EXCEPT ![1] = update(subs[1], frame).s],
          ret |-> update(subs[1], frame).ret]
    ELSE [subscriptions |-> subs, ret |-> OkNone]

\* SessionManager::ingest on the subscriptions subs: [subscriptions, ret]
ingest_on(subs, frame) ==
    LET pos == Position({i \in 1..Len(subs) : matches_sub(subs[i].sub, frame)})
        r == update(subs[pos], frame)
    IN  IF pos # 0
        THEN [subscriptions |-> [subs EXCEPT ![pos] = r.s], ret |-> r.ret]
        ELSE [subscriptions |-> subs, ret |-> OkNone]

\* SessionManager::ingest
ingest(frame) ==
    LET r == ingest_on(subscriptions, frame)
    IN  /\ Running
        /\ op' = "ingest"
        /\ swept' = {}
        /\ Offered(frame)
        /\ subscriptions' = r.subscriptions
        /\ result' = r.ret
        /\ hist' = IF frame.source_node_id = None
                      \/ \A i \in 1..Len(subscriptions) :
                            ~matches_sub(subscriptions[i].sub, frame)
                   THEN hist
                   ELSE [hist EXCEPT ![KeyOf(frame)][unwrap(frame.source_node_id)] =
                            Track(@, frame)]
        /\ UNCHANGED clock

\* update_sessions dropping the sessions that expired
update_sessions_drops(timestamp) ==
    /\ Running
    /\ op' = "update_sessions"
    /\ subscriptions' =
         [i \in 1..Len(subscriptions) |->
            [subscriptions[i] EXCEPT !.sessions =
               [n \in {x \in DOMAIN @ :
                         ~timestamp_expired(subscriptions[i].sub.timeout,
                                            timestamp, @[x].timestamp)} |-> @[n]]]]
    /\ swept' =
         {<<i, n>> \in (1..Len(subscriptions)) \X NodeIds :
             /\ n \in DOMAIN subscriptions[i].sessions
             /\ timestamp_expired(subscriptions[i].sub.timeout, timestamp,
                                  subscriptions[i].sessions[n].timestamp)}
    /\ result' = OkUnit
    /\ UNCHANGED <<clock, hist>>

\* SessionManager::update_sessions
update_sessions(timestamp) ==
    /\ Running
    /\ op' = "update_sessions"
    /\ subscriptions' =
         [i \in 1..Len(subscriptions) |->
            [subscriptions[i] EXCEPT !.sessions =
               [n \in DOMAIN @ |->
                  IF timestamp_expired(subscriptions[i].sub.timeout, timestamp,
                                       @[n].timestamp)
                  THEN Session_new(@[n].transfer_id)
                  ELSE @[n]]]]
    /\ swept' =
         {<<i, n>> \in (1..Len(subscriptions)) \X NodeIds :
             /\ n \in DOMAIN subscriptions[i].sessions
             /\ timestamp_expired(subscriptions[i].sub.timeout, timestamp,
                                  subscriptions[i].sessions[n].timestamp)}
    /\ result' = OkUnit
    /\ UNCHANGED <<clock, hist>>

\* the host's clock advances
Tick ==
    /\ Running
    /\ clock < MaxTime
    /\ clock' = clock + 1
    /\ UNCHANGED <<subscriptions, op, result, hist, swept>>

\* the subscriptions a node makes for one subject
Subscribed == {s \in Subscriptions : s.kind = "Message" /\ s.port_id = 100}

\* one subscription, frames of every transfer in any order
Next ==
    \/ \E sub \in Subscribed : subscribe(sub) /\ UNCHANGED <<fvars, twin, tail>>
    \/ \E sub \in Subscribed : edit_subscription(sub) /\ UNCHANGED <<fvars, twin, tail>>
    \/ \E sub \in Subscribed : unsubscribe(sub) /\ UNCHANGED <<fvars, twin, tail>>
    \/ \E frame \in RxFrames(clock) : ingest(frame) /\ UNCHANGED <<fvars, twin, tail>>
    \/ update_sessions(clock) /\ UNCHANGED <<fvars, twin, tail>>
    \/ Tick /\ UNCHANGED <<fvars, twin, tail>>

Spec == Init /\ [][Next]_vars

\* the one-byte single-frame transfers with transfer id 0 from a known source
StartFrames(now_) ==
    {f \in RxFrames(now_) : /\ f.start_of_transfer
                            /\ f.transfer_id = 0
                            /\ f.data = Payload(1)
                            /\ f.source_node_id # None}

\* the subscriptions a node makes for several ports
Tabled ==
    {s \in Subscriptions :
        /\ KeyOf(s) \in {<<"Message", 100>>, <<"Message", 7509>>, <<"Request", 100>>}
        /\ s.timeout = MaxTime}

\* subscriptions for several ports, frames that open sessions, no clock
NextSubs ==
    \/ \E sub \in Tabled : subscribe(sub) /\ UNCHANGED <<fvars, twin, tail>>
    \/ \E sub \in Tabled : edit_subscription(sub) /\ UNCHANGED <<fvars, twin, tail>>
    \/ \E sub \in Tabled : unsubscribe(sub) /\ UNCHANGED <<fvars, twin, tail>>
    \/ \E frame \in StartFrames(clock) : ingest(frame) /\ UNCHANGED <<fvars, twin, tail>>

SpecSubs == Init /\ [][NextSubs]_vars

(***************************************************************************)
(* subscribe(S), ingests, unsubscribe(S), next to a twin manager that is   *)
(* given the same ingests and never S.  twin is [sub, ok, subscriptions,   *)
(* closed, dropped]: S, whether subscribe(S) returned Ok, the twin's       *)
(* subscriptions, whether unsubscribe(S) has been called, and the number   *)
(* of sessions S had then.                                                 *)
(***************************************************************************)
\* subscribe(S); the twin starts from the subscriptions before the call
Watch(subscription) ==
    /\ twin = None
    /\ subscribe(subscription)
    /\ twin' = Some([sub |-> subscription,
                     ok |-> \A i \in 1..Len(subscriptions) :
                               ~SubEq(subscriptions[i].sub, subscription),
                     subscriptions |-> subscriptions,
                     closed |-> FALSE, dropped |-> 0])

\* ingest(frame) on both managers
Feed(frame) ==
    /\ twin # None
    /\ ~unwrap(twin).closed
    /\ ingest(frame)
    /\ twin' = Some([unwrap(twin) EXCEPT !.subscriptions =
                        ingest_on(@, frame).subscriptions])

\* unsubscribe(S)
Close ==
    /\ twin # None
    /\ ~unwrap(twin).closed
    /\ unsubscribe(unwrap(twin).sub)
    /\ twin' = Some([unwrap(twin) EXCEPT
                        !.closed = TRUE,
                        !.dropped =
                           LET pos == Position({i \in 1..Len(subscriptions) :
                                          SubEq(subscriptions[i].sub, unwrap(twin).sub)})
                           IN  IF pos = 0 THEN 0
                               ELSE Cardinality(DOMAIN subscriptions[pos].sessions)])

\* the subscriptions a node makes for one port, messages and requests
Paired == {s \in Tabled : s.port_id = 100}

\* any subscriptions and sessions first, then subscribe(S), ingests and
\* unsubscribe(S)
NextUnsub ==
    \/ \E sub \in Paired :
          twin = None /\ subscribe(sub) /\ UNCHANGED <<fvars, twin, tail>>
    \/ \E frame \in StartFrames(clock) :
          twin = None /\ ingest(frame) /\ UNCHANGED <<fvars, twin, tail>>
    \/ \E sub \in Paired : Watch(sub) /\ UNCHANGED <<fvars, tail>>
    \/ \E frame \in StartFrames(clock) : Feed(frame) /\ UNCHANGED <<fvars, tail>>
    \/ Close /\ UNCHANGED <<fvars, tail>>

SpecUnsub == Init /\ [][NextUnsub]_vars

(***************************************************************************)
(* Two sources on one subscription.  The manager is given the frames of    *)
(* source nodes 1 and 2 in any interleaving; twin is a manager with the     *)
(* same subscription that is given the frames of node 1 alone.  A call that *)
(* panics ends the program it runs in: a manager that has panicked takes no *)
(* further call.  In twin, ret is what its last ingest returned and last    *)
(* names the source of the frame offered last.                              *)
(***************************************************************************)
\* the frames of the transfers with transfer id 0 from source node n
FramesOf(n) ==
    {RxFrame(0, "Message", 100, Some(n), "Nominal", 0, nk[1], nk[2]) :
        nk \in {x \in (0..MaxPayload) \X (1..MaxFrames) :
                  x[2] <= Len(TxChunks[x[1]])}}

\* the subscriptions to the subject with the smallest extent
Narrow == {s \in Subscribed : s.extent = 1}

\* subscribe(subscription) on both managers
Pair(subscription) ==
    /\ twin = None
    /\ subscribe(subscription)
    /\ twin' = Some([subscriptions |-> subscriptions', ret |-> OkUnit,
                     last |-> 0])

\* a frame of node 1 arrives: ingest(frame) on both managers
FromOne(frame) ==
    /\ twin # None
    /\ unwrap(twin).ret.tag # "Panic"
    /\ \A i \in 1..Len(unwrap(twin).subscriptions) :
          LET t == unwrap(twin).subscriptions[i]
          IN  HasSession(t, 1) =>
                 Len(t.sessions[1].payload) + Len(frame.data) <= MaxBuf
    /\ IF Running THEN ingest(frame) ELSE UNCHANGED mvars
    /\ twin' = Some([subscriptions |->
                        ingest_on(unwrap(twin).subscriptions, frame).subscriptions,
                     ret |-> ingest_on(unwrap(twin).subscriptions, frame).ret,
                     last |-> 1])

\* a frame of node 2 arrives: ingest(frame) on the manager that hears both
FromOther(frame) ==
    /\ twin # None
    /\ ingest(frame)
    /\ twin' = Some([unwrap(twin) EXCEPT !.last = 2])

NextTwo ==
    \/ \E sub \in Narrow : Pair(sub) /\ UNCHANGED <<fvars, tail>>
    \/ \E frame \in FramesOf(1) : FromOne(frame) /\ UNCHANGED <<fvars, tail>>
    \/ \E frame \in FramesOf(2) : FromOther(frame) /\ UNCHANGED <<fvars, tail>>

SpecTwo == Init /\ [][NextTwo]_vars

(***************************************************************************)
(* transfer.rs: a TailByte is made from its four arguments and its         *)
(* transfer id is read back.                                               *)
(***************************************************************************)
\* the values of a TransferID: From<u8> asserts value & !0x1f == 0
TransferIDs == 0..31

\* TailByte::new(start_of_transfer, end_of_transfer, toggle, transfer_id)
tail_new(start, end, toggle, transfer_id) ==
    /\ tail = None
    /\ tail' = Some([start_of_transfer |-> start, end_of_transfer |-> end,
                     toggle |-> toggle, transfer_id |-> transfer_id,
                     byte |-> TailByte_new(start, end, toggle, transfer_id),
                     read |-> None])

\* TailByte::transfer_id(&self)
tail_read ==
    /\ tail # None
    /\ unwrap(tail).read = None
    /\ tail' = Some([unwrap(tail) EXCEPT
                        !.read = Some(TailByte_transfer_id(unwrap(tail).byte))])

NextTail ==
    \/ \E start, end, toggle \in BOOLEAN, transfer_id \in TransferIDs :
          tail_new(start, end, toggle, transfer_id)
             /\ UNCHANGED <<mvars, fvars, twin>>
    \/ tail_read /\ UNCHANGED <<mvars, fvars, twin>>

SpecTail == Init /\ [][NextTail]_vars

(***************************************************************************)
(* The CAN-FD transport: a transfer is handed to transmit (or to           *)
(* FdCanIter::new with a node id), the iterator is driven with next, and   *)
(* the frames it yields are parsed with rx_process_frame.                  *)
(***************************************************************************)
\* longest payload handed to the CAN-FD transport
MaxFdPayload == 130

FdPayload(n) == [i \in 1..n |-> (i * 7) % 256]

FdTransfers ==
    {[priority |-> "Nominal", transfer_kind |-> kr[1], port_id |-> 100,
      remote_node_id |-> kr[2], transfer_id |-> tid, payload |-> FdPayload(n)] :
        kr \in {<<"Message", None>>, <<"Request", Some(2)>>,
                <<"Request", None>>, <<"Response", Some(2)>>},
        tid \in TransferIds, n \in 0..MaxFdPayload}

Started(r, transfer, node_id) ==
    /\ xfer' = Some(transfer)
    /\ local' = node_id
    /\ iter' = IF r.tag = "Ok" THEN Some(r.iter) ELSE None
    /\ ret' = IF r.tag = "Ok" THEN [tag |-> "Iter"] ELSE r
    /\ UNCHANGED <<yielded, rx>>

\* <FdCan as Transport>::transmit(transfer)
transmit(transfer) ==
    /\ xfer = None
    /\ Started(FdCan_transmit(transfer), transfer, Some(1))

\* FdCanIter::new(transfer, node_id)
iter_new(transfer, node_id) ==
    /\ xfer = None
    /\ Started(FdCanIter_new(transfer, node_id), transfer, node_id)

\* Iterator::next on the FdCanIter
next ==
    /\ iter # None
    /\ ret.tag # "Panic"
    /\ LET r == FdCanIter_next(unwrap(iter))
       IN  /\ iter' = Some(r.iter)
           /\ ret' = [tag |-> r.ret.tag]
           /\ yielded' = IF r.ret.tag = "Some" THEN Append(yielded, r.ret.frame)
                         ELSE yielded
    /\ UNCHANGED <<xfer, local, rx>>

\* rx_process_frame(node_id, frame) on the frame yielded last
rx_process(node_id) ==
    /\ yielded # <<>>
    /\ rx' = Some([index |-> Len(yielded), node_id |-> node_id,
                   res |-> rx_process_frame(node_id, yielded[Len(yielded)])])
    /\ UNCHANGED <<xfer, local, iter, yielded, ret>>

NextFd ==
    \/ \E transfer \in FdTransfers, id \in {None, Some(1)} :
          transmit(transfer) /\ node' = id /\ UNCHANGED <<mvars, twin, tail>>
    \/ \E transfer \in FdTransfers :
          iter_new(transfer, None) /\ node' = None /\ UNCHANGED <<mvars, twin, tail>>
    \/ next /\ UNCHANGED <<mvars, node, twin, tail>>
    \/ \E node_id \in {None, Some(2)} : rx_process(node_id) /\ UNCHANGED <<mvars, node, twin, tail>>

SpecFd == Init /\ [][NextFd]_vars

(***************************************************************************)
(* Properties of the CAN-FD transmit iterator and parser (SpecFd).         *)
(***************************************************************************)
\* the transfer handed over, and whether FdCan::transmit took it
Handed == unwrap(xfer)
ViaTransmit == xfer # None /\ local = Some(1)

\* the data lengths a CAN-FD frame may have, and their DLC codes
FdLengths == {1, 2, 3, 4, 5, 6, 7, 8, 12, 16, 20, 24, 32, 48, 64}
Quantized(n) == CHOOSE l \in FdLengths : l >= n /\ \A m \in FdLengths : m >= n => l <= m
DlcCode(l) ==
    IF l <= 8 THEN l
    ELSE CASE l = 12 -> 9 [] l = 16 -> 10 [] l = 20 -> 11 [] l = 24 -> 12
           [] l = 32 -> 13 [] l = 48 -> 14 [] l = 64 -> 15

\* the tail byte of a yielded frame: its last logical byte
TailOf(frame) == frame.payload[frame.tail_at]

\* C5: a transfer of at most 63 bytes handed to FdCan::transmit yields
\* exactly one frame, whose tail byte has start, end and toggle set and
\* carries the transfer id, and the call to next() after it returns None
C5_SingleFrameThenNone ==
    (ViaTransmit /\ iter # None /\ Len(Handed.payload) <= 63) =>
        /\ ret.tag # "Panic"
        /\ Len(yielded) <= 1
        /\ ret.tag = "None" => Len(yielded) = 1
        /\ \A i \in 1..Len(yielded) :
              TailOf(yielded[i]) =
                  TailByte_new(TRUE, TRUE, TRUE, Handed.transfer_id)

\* C6: a transfer of N > 63 bytes handed to FdCan::transmit yields
\* ceil((N + 2) / 63) frames before next() returns None
C6_FrameCount ==
    (ViaTransmit /\ iter # None /\ Len(Handed.payload) > 63) =>
        /\ ret.tag # "Panic"
        /\ Len(yielded) <= (Len(Handed.payload) + 2 + 62) \div 63
        /\ ret.tag = "None" =>
              Len(yielded) = (Len(Handed.payload) + 2 + 62) \div 63

\* C7: rx_process_frame on a frame the iterator yielded for a message
\* transfer from a node with an id returns Ok(Some(f)) with f's
\* start_of_transfer, end_of_transfer and transfer_id those of the tail byte
\* the iterator wrote, zero-padded frames included
C7_RxReadsTailByte ==
    (rx # None /\ Handed.transfer_kind = "Message" /\ local # None) =>
        LET frame == yielded[unwrap(rx).index]
            res == unwrap(rx).res
        IN  /\ res.tag = "OkSome"
            /\ res.frame.start_of_transfer = tail_start_of_transfer(TailOf(frame))
            /\ res.frame.end_of_transfer = tail_end_of_transfer(TailOf(frame))
            /\ res.frame.transfer_id = tail_transfer_id(TailOf(frame))

\* C8: every yielded frame has the smallest CAN-FD length that holds the
\* bytes written (data, CRC, tail byte), its dlc is the code of that
\* length, the bytes after the tail byte are zero, and next() never panics
C8_QuantizedLength ==
    /\ ret.tag # "Panic"
    /\ \A i \in 1..Len(yielded) :
          LET frame == yielded[i]
          IN  /\ Len(frame.payload) \in FdLengths
              /\ Len(frame.payload) = Quantized(frame.tail_at)
              /\ frame.dlc = DlcCode(Len(frame.payload))
              /\ \A j \in (frame.tail_at + 1)..Len(frame.payload) :
                    frame.payload[j] = 0

(***************************************************************************)
(* Properties of the session manager (Spec, SpecSubs).                     *)
(***************************************************************************)
\* h is the first Len(h) frames, in order, of a well-formed transfer of n
\* bytes: one transfer id and priority, start on the first frame, end on
\* the last, toggle alternating from 1, CRC after the data when multi-frame
IsStartOf(h, n) ==
    /\ h # <<>>
    /\ Len(h) <= Len(TxChunks[n])
    /\ \A k \in 1..Len(h) :
          h[k] = Shown(RxFrame(0, "Message", 100, None, h[1].priority,
                               h[1].transfer_id, n, k))

\* the subscription a frame is routed to, 0 when none
Routed(frame) == Position({i \in 1..Len(subscriptions) :
                               matches_sub(subscriptions[i].sub, frame)})

\* C1: the frames of a well-formed transfer of a subscribed kind and port,
\* ingested in order with the extent at least the payload length: every
\* frame before the last returns Ok(None), the last returns Ok(Some(t)) with
\* t's payload, transfer id, priority and port id those of the transfer
C1_RoundTrip ==
    [][\A frame \in RxFrames(clock) :
         (ingest(frame) /\ frame.source_node_id # None /\ Routed(frame) # 0) =>
            LET h == hist'[KeyOf(frame)][unwrap(frame.source_node_id)]
                extent == subscriptions[Routed(frame)].sub.extent
            IN  \A n \in 0..MaxPayload :
                   (n <= extent /\ IsStartOf(h, n)) =>
                      IF Len(h) < Len(TxChunks[n])
                      THEN result' = OkNone
                      ELSE /\ result'.tag = "OkSome"
                           /\ result'.transfer.payload = Payload(n)
                           /\ result'.transfer.transfer_id = h[1].transfer_id
                           /\ result'.transfer.priority = h[1].priority
                           /\ result'.transfer.port_id = frame.port_id]_vars

\* C2: every session of every subscription holds at most extent bytes
C2_PayloadWithinExtent ==
    \A i \in 1..Len(subscriptions) :
       \A n \in DOMAIN subscriptions[i].sessions :
          Len(subscriptions[i].sessions[n].payload) <= subscriptions[i].sub.extent

\* C3: the frames of a well-formed transfer longer than the extent,
\* ingested in order: the last frame delivers the first extent bytes of the
\* payload, exactly
C3_TruncatedToExtent ==
    [][\A frame \in RxFrames(clock) :
         (ingest(frame) /\ frame.source_node_id # None /\ Routed(frame) # 0) =>
            LET h == hist'[KeyOf(frame)][unwrap(frame.source_node_id)]
                extent == subscriptions[Routed(frame)].sub.extent
            IN  \A n \in 0..MaxPayload :
                   (n > extent /\ IsStartOf(h, n) /\ Len(h) = Len(TxChunks[n])) =>
                      /\ result'.tag = "OkSome"
                      /\ result'.transfer.payload = SubSeq(Payload(n), 1, extent)]_vars

\* C4: no call to ingest panics, whatever the frame, anonymous ones included
C4_IngestNeverPanics == op = "ingest" => result.tag # "Panic"

\* no two subscriptions have the same kind and port id
UniqueKeys ==
    \A i, j \in 1..Len(subscriptions) :
       SubEq(subscriptions[i].sub, subscriptions[j].sub) => i = j

\* C9: subscribe appends the subscription with an empty session map,
\* unless one with the same kind and port id exists: then it returns
\* SubscriptionExists and changes nothing; no two subscriptions ever have
\* the same kind and port id
C9_Subscribe ==
    /\ []UniqueKeys
    /\ [][\A sub \in Tabled :
            subscribe(sub) =>
               IF \E i \in 1..Len(subscriptions) :
                     KeyOf(subscriptions[i].sub) = KeyOf(sub)
               THEN /\ result' = Err("SubscriptionExists")
                    /\ subscriptions' = subscriptions
               ELSE /\ result' = OkUnit
                    /\ subscriptions' =
                         Append(subscriptions, [sub |-> sub, sessions |-> <<>>])]_vars

\* a subscribe was rejected while the table held other keys too
C9_Rejected ==
    /\ op = "subscribe"
    /\ result = Err("SubscriptionExists")
    /\ Len(subscriptions) >= 2
    /\ \E i \in 1..Len(subscriptions) : subscriptions[i].sessions # <<>>

C12_UnmatchedDropped ==
    \A frame \in RxFrames(clock) :
       Routed(frame) = 0 =>
          /\ ingest_on(subscriptions, frame).ret = OkNone
          /\ ingest_on(subscriptions, frame).subscriptions = subscriptions

\* a frame that matched nothing was dropped: ingest returned Ok(None) while
\* the last frame the subscribed source got through its subscription ended
\* a transfer, which never returns Ok(None)
C12_Dropped ==
    /\ op = "ingest"
    /\ result = OkNone
    /\ \E i \in 1..Len(subscriptions) : subscriptions[i].sessions # <<>>
    /\ LET h == hist[<<"Message", 100>>][1]
       IN  h # <<>> /\ h[Len(h)].end_of_transfer

\* the frames that may arrive now or later
LaterFrames == UNION {RxFrames(t) : t \in clock..MaxTime}

\* C13: in every state, a frame from a source whose session has the frame's
\* transfer id and a timestamp more than the timeout before the frame's:
\* ingest returns Err(Timeout) and resets that session (empty payload, no
\* timestamp, fresh metadata) and nothing else; a start-of-transfer frame
\* from that source on that subscription coming next returns neither
\* Timeout nor NewSessionNoStart
C13_TimeoutResets ==
    \A frame \in RxFrames(clock) :
       LET pos == Routed(frame)
           id == unwrap(frame.source_node_id)
           session == subscriptions[pos].sessions[id]
           r == ingest_on(subscriptions, frame)
       IN  (/\ pos # 0
            /\ frame.source_node_id # None
            /\ id \in DOMAIN subscriptions[pos].sessions
            /\ session.transfer_id = frame.transfer_id
            /\ session.timestamp # None
            /\ frame.timestamp - unwrap(session.timestamp)
                 > subscriptions[pos].sub.timeout) =>
              /\ r.ret = Err("Timeout")
              /\ r.subscriptions =
                    [subscriptions EXCEPT ![pos].sessions[id] =
                        [timestamp |-> None, payload |-> <<>>,
                         transfer_id |-> session.transfer_id, md |-> md_new]]
              /\ \A g \in LaterFrames :
                    (/\ g.start_of_transfer
                     /\ KeyOf(g) = KeyOf(frame)
                     /\ g.source_node_id = frame.source_node_id) =>
                       ingest_on(r.subscriptions, g).ret
                          \notin {Err("Timeout"), Err("NewSessionNoStart")}

\* ingest returned Timeout and left the source's session reset
C13_TimedOut ==
    /\ op = "ingest"
    /\ result = Err("Timeout")
    /\ \E i \in 1..Len(subscriptions) :
          \E n \in DOMAIN subscriptions[i].sessions :
             /\ subscriptions[i].sessions[n].payload = <<>>
             /\ subscriptions[i].sessions[n].timestamp = None
             /\ subscriptions[i].sessions[n].md = md_new

\* C14: update_sessions(now) keeps the subscription list, every
\* subscription's parameters and every session entry; a session whose
\* timestamp is more than the timeout before now gets an empty payload, no
\* timestamp and fresh metadata and keeps its transfer id; every other
\* session, one without a timestamp included, is unchanged
C14_SweepInPlace ==
    [][update_sessions(clock) =>
         /\ Len(subscriptions') = Len(subscriptions)
         /\ \A i \in 1..Len(subscriptions) :
               /\ subscriptions'[i].sub = subscriptions[i].sub
               /\ DOMAIN subscriptions'[i].sessions = DOMAIN subscriptions[i].sessions
               /\ \A n \in DOMAIN subscriptions[i].sessions :
                     LET old == subscriptions[i].sessions[n]
                     IN  subscriptions'[i].sessions[n] =
                            IF /\ old.timestamp # None
                               /\ clock - unwrap(old.timestamp)
                                    > subscriptions[i].sub.timeout
                            THEN [timestamp |-> None, payload |-> <<>>,
                                  transfer_id |-> old.transfer_id,
                                  md |-> md_new]
                            ELSE old]_vars

\* update_sessions has just replaced a session and left it in place
C14_Swept ==
    /\ op = "update_sessions"
    /\ \E i \in 1..Len(subscriptions) :
          \E n \in DOMAIN subscriptions[i].sessions :
             /\ <<i, n>> \in swept
             /\ subscriptions[i].sessions[n].timestamp = None
             /\ subscriptions[i].sessions[n].payload = <<>>

\* C15: after the first frame of a multi-frame transfer was ingested and
\* update_sessions, called later than the timeout after it, has swept the
\* source's session, a following frame of that transfer (not a start of
\* transfer, same transfer id, same source) returns Err(NewSessionNoStart)
C15_SweptThenNoStart ==
    \A i \in 1..Len(subscriptions) :
       \A n \in DOMAIN subscriptions[i].sessions :
          LET h == hist[KeyOf(subscriptions[i].sub)][n]
          IN  (/\ op = "update_sessions"
               /\ <<i, n>> \in swept
               /\ Len(h) = 1
               /\ h[1].start_of_transfer
               /\ ~h[1].end_of_transfer) =>
                 \A frame \in RxFrames(clock) :
                    (/\ Routed(frame) = i
                     /\ frame.source_node_id = Some(n)
                     /\ ~frame.start_of_transfer
                     /\ frame.transfer_id = h[1].transfer_id) =>
                       ingest_on(subscriptions, frame).ret = Err("NewSessionNoStart")

\* C16: in every state, a single-frame message without a source node id
\* that matches a subscription: ingest returns Ok(Some(t)) with t made of
\* the frame alone, and no session is created or modified
C16_AnonymousBypasses ==
    \A frame \in RxFrames(clock) :
       (/\ Routed(frame) # 0
        /\ frame.kind = "Message"
        /\ frame.source_node_id = None
        /\ frame.start_of_transfer
        /\ frame.end_of_transfer) =>
          LET r == ingest_on(subscriptions, frame)
          IN  /\ r.ret.tag = "OkSome"
              /\ r.ret.transfer.payload = frame.data
              /\ r.ret.transfer.transfer_id = frame.transfer_id
              /\ r.subscriptions = subscriptions

\* the kinds of transfer that are services
Services == {"Request", "Response"}

\* C17: FdCan::transmit called by a node: a service transfer returns
\* ServiceNoSourceID when the node has no node id and ServiceNoDestinationID
\* when the transfer has no remote node id; a message of more than 63 bytes
\* from a node without a node id returns AnonNotSingleFrame; with both ids
\* missing either of the two service errors; in each case there is no
\* iterator
C17_TransmitErrors ==
    ViaTransmit =>
       /\ (Handed.transfer_kind \in Services /\ node = None
              /\ Handed.remote_node_id # None) =>
             ret = Err("ServiceNoSourceID") /\ iter = None
       /\ (Handed.transfer_kind \in Services /\ node # None
              /\ Handed.remote_node_id = None) =>
             ret = Err("ServiceNoDestinationID") /\ iter = None
       /\ (Handed.transfer_kind \in Services /\ node = None
              /\ Handed.remote_node_id = None) =>
             /\ ret \in {Err("ServiceNoSourceID"), Err("ServiceNoDestinationID")}
             /\ iter = None
       /\ (Handed.transfer_kind = "Message" /\ node = None
              /\ Len(Handed.payload) > 63) =>
             ret = Err("AnonNotSingleFrame") /\ iter = None

\* C20: in every state, a frame from a source that has no session in the
\* subscription it matches: when it is not a start of transfer, ingest
\* returns Err(NewSessionNoStart) and changes nothing; when it is, the
\* subscription has a session for the source afterwards, with the frame's
\* transfer id, and nothing else is changed
C20_NoSessionYet ==
    \A frame \in RxFrames(clock) :
       LET pos == Routed(frame)
           id == unwrap(frame.source_node_id)
           r == ingest_on(subscriptions, frame)
       IN  (/\ pos # 0
            /\ frame.source_node_id # None
            /\ id \notin DOMAIN subscriptions[pos].sessions) =>
              IF ~frame.start_of_transfer
              THEN /\ r.ret = Err("NewSessionNoStart")
                   /\ r.subscriptions = subscriptions
              ELSE /\ Len(r.subscriptions) = Len(subscriptions)
                   /\ \A i \in 1..Len(subscriptions) :
                         i # pos => r.subscriptions[i] = subscriptions[i]
                   /\ r.subscriptions[pos].sub = subscriptions[pos].sub
                   /\ DOMAIN r.subscriptions[pos].sessions
                         = DOMAIN subscriptions[pos].sessions \cup {id}
                   /\ r.subscriptions[pos].sessions[id].transfer_id
                         = frame.transfer_id
                   /\ \A n \in DOMAIN subscriptions[pos].sessions :
                         r.subscriptions[pos].sessions[n]
                            = subscriptions[pos].sessions[n]

\* ingest refused a frame that starts nothing and left the subscription
\* without a session
C20_Refused ==
    /\ op = "ingest"
    /\ result = Err("NewSessionNoStart")
    /\ \E i \in 1..Len(subscriptions) : DOMAIN subscriptions[i].sessions = {}

\* SessionManager::ingest called on each frame of a sequence in turn:
\* [subscriptions, rets] with rets the results in order
RECURSIVE ingest_all(_, _)
ingest_all(subs, frames) ==
    IF frames = <<>>
    THEN [subscriptions |-> subs, rets |-> <<>>]
    ELSE LET r == ingest_on(subs, Head(frames))
             rest == ingest_all(r.subscriptions, Tail(frames))
         IN  [subscriptions |-> rest.subscriptions, rets |-> <<r.ret>> \o rest.rets]

\* the frames of the n-byte transfer tid from source id for subscription
\* sub, the first arriving at time t1 and the others at time t2
TransferFrames(sub, id, tid, n, t1, t2) ==
    [k \in 1..Len(TxChunks[n]) |->
        RxFrame(IF k = 1 THEN t1 ELSE t2, sub.kind, sub.port_id, Some(id),
                "Nominal", tid, n, k)]

\* C19: in every state, for every session and every transfer of that
\* session's source that has another transfer id (0 after 31 included) and
\* fits the extent, its frames arriving in order within the timeout: the
\* first frame leaves the session with the new transfer id, the frame's
\* timestamp, and the payload and metadata of that frame alone; every frame
\* before the last returns Ok(None) and the last returns Ok(Some(t)) with
\* t's payload the transfer's bytes and t's transfer id the new one
C19_NewTransferId ==
    \A i \in 1..Len(subscriptions) :
       \A id \in DOMAIN subscriptions[i].sessions :
          \A tid \in TransferIds, n \in 0..MaxPayload, t2 \in clock..MaxTime :
             LET sub == subscriptions[i].sub
                 fs == TransferFrames(sub, id, tid, n, clock, t2)
                 first == ingest_on(subscriptions, fs[1]).subscriptions[i].sessions[id]
                 rets == ingest_all(subscriptions, fs).rets
             IN  (/\ Routed(fs[1]) = i
                  /\ subscriptions[i].sessions[id].transfer_id # tid
                  /\ n <= sub.extent
                  /\ t2 - clock <= sub.timeout) =>
                    /\ first.transfer_id = tid
                    /\ first.timestamp = Some(clock)
                    /\ first.payload = fs[1].data
                    /\ first.md = md_update(md_new, fs[1]).md
                    /\ \A k \in 1..Len(fs) - 1 : rets[k] = OkNone
                    /\ rets[Len(fs)].tag = "OkSome"
                    /\ rets[Len(fs)].transfer.payload = Payload(n)
                    /\ rets[Len(fs)].transfer.transfer_id = tid

\* a source's session holds part of a transfer with transfer id 31: the
\* state in which a start of transfer with transfer id 0 has to discard it
C19_PartialBeforeWrap ==
    /\ op = "ingest"
    /\ result = OkNone
    /\ \E i \in 1..Len(subscriptions) :
          \E id \in DOMAIN subscriptions[i].sessions :
             LET session == subscriptions[i].sessions[id]
             IN  /\ session.transfer_id = 31
                 /\ session.payload # <<>>
                 /\ session.md # md_new
                 /\ session.timestamp # None

\* the session a manager's subscriptions hold for source node n
SessionsOf(subs, n) ==
    [i \in 1..Len(subs) |->
        IF HasSession(subs[i], n) THEN Some(subs[i].sessions[n]) ELSE None]

\* C18: with the frames of node 2 interleaved in any way, every frame of
\* node 1 gets the result it gets without them, and node 1's sessions are
\* at all times what they are without them
C18_SourcesIndependent ==
    twin # None =>
       /\ unwrap(twin).last = 1 => op = "ingest" /\ result = unwrap(twin).ret
       /\ SessionsOf(subscriptions, 1) = SessionsOf(unwrap(twin).subscriptions, 1)

\* the number of frames next() still yields from it before it returns None
\* or panics
RECURSIVE Remaining(_)
Remaining(it) ==
    LET r == FdCanIter_next(it)
    IN  IF r.ret.tag = "Some" THEN 1 + Remaining(r.iter) ELSE 0

\* C21: at every point of the iteration size_hint returns (k, Some(k)) with
\* k the number of frames the iterator still yields
C21_SizeHintExact ==
    (iter # None /\ ret.tag # "Panic") =>
       size_hint(unwrap(iter))
          = <<Remaining(unwrap(iter)), Some(Remaining(unwrap(iter)))>>

\* C22: after edit_subscription(sub) the manager holds a subscription with
\* sub's kind, port id and parameters, whether or not one existed before
C22_EditCreates ==
    [][\A sub \in Tabled :
         edit_subscription(sub) =>
            \E i \in 1..Len(subscriptions') : subscriptions'[i].sub = sub]_vars

\* a transfer that does not fit one frame has been handed over
MultiFrame == xfer # None /\ iter # None /\ Len(Handed.payload) > 63

\* the CRC of the transfer handed over, high byte first
CrcOf(transfer) == to_be_bytes(digest(crc16ccitt_false, transfer.payload))

\* C23: in the frames yielded for a multi-frame transfer, start_of_transfer
\* is set on the first frame only; a frame with end_of_transfer set is the
\* last one the iterator yields and has the final CRC byte before its tail
\* byte; when the iterator is exhausted the last frame has end_of_transfer
\* set; every frame has the first frame's id and the transfer's transfer id
C23_StartEndFlags ==
    MultiFrame =>
       \A k \in 1..Len(yielded) :
          /\ tail_start_of_transfer(TailOf(yielded[k])) <=> (k = 1)
          /\ tail_end_of_transfer(TailOf(yielded[k])) =>
                /\ k = Len(yielded)
                /\ Remaining(unwrap(iter)) = 0
                /\ yielded[k].tail_at >= 2
                /\ yielded[k].payload[yielded[k].tail_at - 1]
                      = CrcOf(Handed)[2]
          /\ (ret.tag = "None" /\ k = Len(yielded)) =>
                tail_end_of_transfer(TailOf(yielded[k]))
          /\ yielded[k].id = yielded[1].id
          /\ tail_transfer_id(TailOf(yielded[k])) = Handed.transfer_id

Body(frame) == SubSeq(frame.payload, 1, frame.tail_at - 1)

\* the bodies of a sequence of frames, concatenated in order
RECURSIVE Bodies(_)
Bodies(frames) ==
    IF frames = <<>> THEN <<>> ELSE Body(Head(frames)) \o Bodies(Tail(frames))

\* C25: the bodies of the frames of a multi-frame transfer are the payload
\* followed once by its CRC; the frames of a transfer that fits one frame
\* carry payload bytes only
C25_CrcOnce ==
    /\ (MultiFrame /\ ret.tag = "None") =>
          Bodies(yielded) = Handed.payload \o CrcOf(Handed)
    /\ (xfer # None /\ iter # None /\ Len(Handed.payload) <= 63) =>
          \E n \in 0..Len(Handed.payload) :
             Bodies(yielded) = SubSeq(Handed.payload, 1, n)

\* C26: when ingest has returned Ok(Some(transfer)), the session the
\* transfer was assembled in is reset: empty payload, no timestamp, fresh
\* metadata
C26_ResetAfterDelivery ==
    (op = "ingest" /\ result.tag = "OkSome") =>
       \A i \in 1..Len(subscriptions) :
          (/\ subscriptions[i].sub.kind = result.transfer.transfer_kind
           /\ subscriptions[i].sub.port_id = result.transfer.port_id) =>
             LET session ==
                    subscriptions[i].sessions[unwrap(result.transfer.remote_node_id)]
             IN  /\ session.payload = <<>>
                 /\ session.timestamp = None
                 /\ session.md = md_new

\* how calling next() on it again and again ends: "None" or "Panic"
RECURSIVE Ends(_)
Ends(it) ==
    LET r == FdCanIter_next(it)
    IN  IF r.ret.tag = "Some" THEN Ends(r.iter) ELSE r.ret.tag

\* C27: from every point of every iteration next() returns None after
\* finitely many frames; when it has returned None all payload bytes and
\* both CRC bytes are out, and the next call returns None again
C27_Terminates ==
    iter # None =>
       /\ Ends(unwrap(iter)) = "None"
       /\ ret.tag = "None" =>
             /\ unwrap(iter).payload_offset = Len(Handed.payload)
             /\ unwrap(iter).crc_left = 0
             /\ FdCanIter_next(unwrap(iter)).ret.tag = "None"

\* C28: the TransferID read from TailByte::new(start, end, toggle, t) is t,
\* for every flag combination and every t in 0..31, and its bits 5..7 are
\* zero
C28_TransferIdReadBack ==
    (tail # None /\ unwrap(tail).read # None) =>
       /\ unwrap(unwrap(tail).read) = unwrap(tail).transfer_id
       /\ unwrap(unwrap(tail).read) \div 32 = 0

\* C29: a session without a recorded timestamp, one that no start of
\* transfer has opened since it was created or reset, holds no payload
\* bytes; so every transfer delivered was opened by a start-of-transfer
\* frame and bears that frame's timestamp
C29_StartedByStartFrame ==
    \A i \in 1..Len(subscriptions) :
       \A n \in DOMAIN subscriptions[i].sessions :
          subscriptions[i].sessions[n].timestamp = None =>
             subscriptions[i].sessions[n].payload = <<>>

====
